---- MODULE Spec2Model ----
(***************************************************************************)
(* Uint256 of m0t0k1ch1-go/bigutil: a big.Int constrained to 256 bits with *)
(* its constructors and byte / hex / text / JSON codecs.                   *)
(*                                                                         *)
(* Two revisions of uint256.go are modelled side by side:                  *)
(*   rev = "v2"  src/uint256.go with src/bigutil.go                        *)
(*   rev = "p4"  src/unnamed/part_004                                      *)
(* Definitions of the second revision carry the suffix _p4.                *)
(*                                                                         *)
(* A big.Int is {neg, abs} where abs is a slice of machine words over a    *)
(* backing array.  Copying a big.Int struct copies the slice header, not   *)
(* the array, so the model keeps a heap of backing arrays and a big.Int is *)
(* a record [neg, arr, len].  An array is its little-endian byte image,    *)
(* WordBytes bytes per word; its capacity is Len \div WordBytes.           *)
(* A string is a sequence of one-character strings.                        *)
(***************************************************************************)
EXTENDS Integers, Sequences, FiniteSets, TLC

\* ------------------------------------------------------------------------
\* Program constants
\* ------------------------------------------------------------------------
maxByteLength == 32

maxBitLength == maxByteLength * 8

maxUint256Bytes == 32

maxUint256Bits == 256

\* bytes per big.Word (64-bit platform)
WordBytes == 8

\* ------------------------------------------------------------------------
\* Bounds of the model
\* ------------------------------------------------------------------------
\* backing arrays the heap can hold at once
MaxArr == 8

\* most leading zero digits put in front of a hex input
MaxLead == 1

\* ------------------------------------------------------------------------
\* Sequences
\* ------------------------------------------------------------------------
Rep(b, n) == [i \in 1..n |-> b]

Reverse(s) == [i \in 1..Len(s) |-> s[Len(s) + 1 - i]]

MinOf(S) == CHOOSE m \in S : \A k \in S : m <= k

MaxOf(S) == CHOOSE m \in S : \A k \in S : m >= k

\* s without its leading elements equal to z
TrimLeft(s, z) ==
    LET keep == {i \in 1..Len(s) : s[i] # z}
    IN  IF keep = {} THEN <<>> ELSE SubSeq(s, MinOf(keep), Len(s))

RECURSIVE Flatten(_)
Flatten(ss) == IF ss = <<>> THEN <<>> ELSE Head(ss) \o Flatten(Tail(ss))

Pow2(k) == 2 ^ k

\* bits.Len of one byte
Len8(b) == CHOOSE k \in 0..8 : b < Pow2(k) /\ (k = 0 \/ b >= Pow2(k - 1))

\* ------------------------------------------------------------------------
\* Heap of backing arrays
\* ------------------------------------------------------------------------
ArrIds == 1..MaxArr

EmptyHeap == [a \in ArrIds |-> <<>>]

Arr(h, a) == IF a = 0 THEN <<>> ELSE h[a]

FreeId(h) == MinOf({a \in ArrIds : h[a] = <<>>})

\* the zero value of big.Int
ZeroInt == [neg |-> FALSE, arr |-> 0, len |-> 0]

\* a nil *big.Int
NilPtr == [nil |-> TRUE]

IsNil(p) == "nil" \in DOMAIN p

Cap(h, z) == Len(Arr(h, z.arr)) \div WordBytes

\* little-endian byte image of the words abs[0 .. len-1]
AbsLE(h, z) == SubSeq(Arr(h, z.arr), 1, z.len * WordBytes)

\* big-endian byte image of word i (1-based) of array a
WordBE(h, a, i) == Reverse(SubSeq(Arr(h, a), (i - 1) * WordBytes + 1, i * WordBytes))

WordIsZero(h, a, i) == \A j \in 1..WordBytes : WordBE(h, a, i)[j] = 0

\* nat.norm: drop the most significant zero words
norm(h, a, n) ==
    LET nz == {i \in 1..n : ~WordIsZero(h, a, i)}
    IN  IF nz = {} THEN 0 ELSE MaxOf(nz)

\* nat.make: reuse the backing array when it is large enough
make(h, z, n) ==
    IF n <= Cap(h, z)
    THEN [h |-> h, arr |-> z.arr]
    ELSE LET a == FreeId(h)
             c == IF n = 1 THEN 1 ELSE n + 4
         IN  [h |-> [h EXCEPT ![a] = Rep(0, c * WordBytes)], arr |-> a]

\* overwrite the first bytes of array a
Store(h, a, le) ==
    IF a = 0 \/ le = <<>> THEN h
    ELSE [h EXCEPT ![a] = le \o SubSeq(h[a], Len(le) + 1, Len(h[a]))]

\* (*big.Int).SetBytes: buf is big-endian; every covered word is written
SetBytes(h, z, buf) ==
    LET n  == (Len(buf) + WordBytes - 1) \div WordBytes
        m  == make(h, z, n)
        le == Reverse(buf) \o Rep(0, n * WordBytes - Len(buf))
        h2 == Store(m.h, m.arr, le)
    IN  [h |-> h2, z |-> [neg |-> FALSE, arr |-> m.arr, len |-> norm(h2, m.arr, n)]]

\* (*big.Int).Set: copy the words of x into z's storage
Set(h, z, x) ==
    LET m  == make(h, z, x.len)
        h2 == Store(m.h, m.arr, AbsLE(h, x))
    IN  [h |-> h2, z |-> [neg |-> x.neg, arr |-> m.arr, len |-> x.len]]

\* (*big.Int).SetUint64, the argument given as its 8 big-endian bytes
SetUint64(h, z, be) ==
    IF \A j \in 1..Len(be) : be[j] = 0
    THEN [h |-> h, z |-> [neg |-> FALSE, arr |-> z.arr, len |-> 0]]
    ELSE LET m == make(h, z, 1)
         IN  [h |-> Store(m.h, m.arr, Reverse(be)),
              z |-> [neg |-> FALSE, arr |-> m.arr, len |-> 1]]

\* (*big.Int).SetInt64(-1)
SetMinusOne(h, z) ==
    LET m == make(h, z, 1)
    IN  [h |-> Store(m.h, m.arr, <<1>> \o Rep(0, WordBytes - 1)),
         z |-> [neg |-> TRUE, arr |-> m.arr, len |-> 1]]

\* (*big.Int).Sign
Sign(z) == IF z.len = 0 THEN 0 ELSE IF z.neg THEN -1 ELSE 1

\* (*big.Int).BitLen: position of the top bit of the top word
BitLen(h, z) ==
    IF z.len = 0 THEN 0
    ELSE LET top == TrimLeft(WordBE(h, z.arr, z.len), 0)
         IN  (z.len - 1) * WordBytes * 8
             + (IF top = <<>> THEN 0 ELSE (Len(top) - 1) * 8 + Len8(top[1]))

\* (*big.Int).Bytes: big-endian, leading zero bytes skipped
Bytes(h, z) == TrimLeft(Reverse(AbsLE(h, z)), 0)

HexDigits == <<"0", "1", "2", "3", "4", "5", "6", "7",
               "8", "9", "a", "b", "c", "d", "e", "f">>

ByteHex(b) == <<HexDigits[(b \div 16) + 1], HexDigits[(b % 16) + 1]>>

BytesHex(bs) == Flatten([i \in 1..Len(bs) |-> ByteHex(bs[i])])

\* (*big.Int).Text(16): the top word without leading zeros, the others in full
Text16(h, z) ==
    IF z.len = 0 THEN <<"0">>
    ELSE (IF z.neg THEN <<"-">> ELSE <<>>)
         \o TrimLeft(BytesHex(WordBE(h, z.arr, z.len)), "0")
         \o Flatten([i \in 1..(z.len - 1) |-> BytesHex(WordBE(h, z.arr, z.len - i))])

\* ------------------------------------------------------------------------
\* Errors: the text of an error, as the list of its ": "-joined parts.
\* <<>> is the nil error.
\* ------------------------------------------------------------------------
NoErr == <<>>

\* a run-time panic (nil dereference, index or slice bounds out of range)
Panic == <<"panic", "runtime error">>

\* panic(err)
PanicWith(e) == <<"panic">> \o e

IsPanic(e) == e # <<>> /\ e[1] = "panic"

\* oops.Wrap keeps the text of the wrapped error
oopsWrap(e) == e

\* ------------------------------------------------------------------------
\* go-ethereum hexutil
\* ------------------------------------------------------------------------
\* hexutil.decodeNibble: -1 is badNibble
decodeNibble(c) ==
    CASE c = "0" -> 0  [] c = "1" -> 1  [] c = "2" -> 2  [] c = "3" -> 3
      [] c = "4" -> 4  [] c = "5" -> 5  [] c = "6" -> 6  [] c = "7" -> 7
      [] c = "8" -> 8  [] c = "9" -> 9
      [] c \in {"a", "A"} -> 10  [] c \in {"b", "B"} -> 11
      [] c \in {"c", "C"} -> 12  [] c \in {"d", "D"} -> 13
      [] c \in {"e", "E"} -> 14  [] c \in {"f", "F"} -> 15
      [] OTHER -> -1

\* big-endian bytes of a string of hex digits (an odd length gets a zero nibble)
NibblesBE(raw) ==
    LET r == IF Len(raw) % 2 = 1 THEN <<"0">> \o raw ELSE raw
    IN  [i \in 1..(Len(r) \div 2) |->
            16 * decodeNibble(r[2 * i - 1]) + decodeNibble(r[2 * i])]

\* hexutil.checkNumber: the error, NoErr when the input passes
checkNumber(input) ==
    IF Len(input) = 0 THEN <<"empty hex string">>
    ELSE IF ~(Len(input) >= 2 /\ input[1] = "0" /\ input[2] \in {"x", "X"})
    THEN <<"hex string without 0x prefix">>
    ELSE IF Len(input) = 2 THEN <<"hex string \"0x\"">>
    ELSE IF Len(input) > 3 /\ input[3] = "0"
    THEN <<"hex number with leading zero digits">>
    ELSE NoErr

\* hexutil.DecodeBig: a new big.Int over a fresh array of len(raw)/16+1 words
DecodeBig(h, input) ==
    LET raw == SubSeq(input, 3, Len(input))
        c   == Len(raw) \div 16 + 1
        a   == FreeId(h)
        be  == NibblesBE(raw)
        h2  == [h EXCEPT ![a] = Reverse(be) \o Rep(0, c * WordBytes - Len(be))]
    IN  IF checkNumber(input) # NoErr
        THEN [h |-> h, x |-> NilPtr, err |-> checkNumber(input)]
        ELSE IF Len(raw) > 64
        THEN [h |-> h, x |-> NilPtr, err |-> <<"hex number > 256 bits">>]
        ELSE IF \E i \in 1..Len(raw) : decodeNibble(raw[i]) = -1
        THEN [h |-> h, x |-> NilPtr, err |-> <<"invalid hex string">>]
        ELSE [h |-> h2,
              x |-> [neg |-> FALSE, arr |-> a, len |-> norm(h2, a, c)],
              err |-> NoErr]

\* hexutil.EncodeBig
EncodeBig(h, z) ==
    IF Sign(z) = 0 THEN <<"0", "x", "0">>
    ELSE IF Sign(z) > 0 THEN <<"0", "x">> \o Text16(h, z)
    ELSE <<"-", "0", "x">> \o Tail(Text16(h, z))

\* ------------------------------------------------------------------------
\* math/big text import: (*big.Int).UnmarshalText scans with base 0
\* ------------------------------------------------------------------------
\* digit value of a character in nat.scan (36 and 63 exceed every base used)
scanDigitOf(c, nib) ==
    IF nib # -1 THEN nib
    ELSE IF c \in {"g", "G", "o", "O", "x", "X", "z", "Z"} THEN 36
    ELSE 63

scanDigit(c) == scanDigitOf(c, decodeNibble(c))

\* value * b + carry on a little-endian byte image
RECURSIVE MulAddLE(_, _, _)
MulAddLE(le, b, carry) ==
    IF le = <<>>
    THEN IF carry = 0 THEN <<>>
         ELSE <<carry % 256>> \o MulAddLE(<<>>, b, carry \div 256)
    ELSE <<(le[1] * b + carry) % 256>>
         \o MulAddLE(Tail(le), b, (le[1] * b + carry) \div 256)

\* the number written by a few digits
RECURSIVE SmallVal(_, _)
SmallVal(digs, base) ==
    IF digs = <<>> THEN 0
    ELSE SmallVal(SubSeq(digs, 1, Len(digs) - 1), base) * base
         + scanDigit(digs[Len(digs)])

\* digits taken at a time when a number is evaluated
GroupLen(base) == CASE base = 2 -> 16 [] base = 8 -> 6 [] base = 10 -> 6 [] base = 16 -> 4

\* little-endian byte image of the number written by digs in the base
RECURSIVE ValLE(_, _, _)
ValLE(digs, base, g) ==
    IF Len(digs) <= g THEN MulAddLE(<<>>, 1, SmallVal(digs, base))
    ELSE MulAddLE(ValLE(SubSeq(digs, 1, Len(digs) - g), base, g), base ^ g,
                  SmallVal(SubSeq(digs, Len(digs) - g + 1, Len(digs)), base))

\* math/big maxPow: digits nat.scan collects before one mulAddWW
maxPowDigits(base) ==
    CASE base = 2 -> 63 [] base = 8 -> 21 [] base = 10 -> 19 [] base = 16 -> 15

\* image padded with zero bytes to n words
PadWords(le, n) == le \o Rep(0, n * WordBytes - Len(le))

\* the words after nat.mulAddWW wrote cnt words into array a
mulAddWWNorm(h, a, cnt) ==
    [h |-> h, z |-> [neg |-> FALSE, arr |-> a, len |-> norm(h, a, cnt)]]

\* nat.mulAddWW storing val into the array nat.make gave
mulAddWWStore(m, val, cnt) ==
    mulAddWWNorm(Store(m.h, m.arr, PadWords(val, cnt)), m.arr, cnt)

\* nat.mulAddWW on the digits up to hi: z stays empty while the digits are zeros
mulAddWWUpTo(h, z, digs, base, lo, hi) ==
    IF z.len = 0 /\ \A i \in lo..hi : scanDigit(digs[i]) = 0
    THEN [h |-> h, z |-> [z EXCEPT !.len = 0]]
    ELSE mulAddWWStore(make(h, z, z.len + 1),
                       ValLE(SubSeq(digs, 1, hi), base, GroupLen(base)), z.len + 1)

\* nat.mulAddWW after the k-th group of n digits, as nat.scan calls it
mulAddWW(h, z, digs, base, k, n) ==
    mulAddWWUpTo(h, z, digs, base, (k - 1) * n + 1, MinOf({k * n, Len(digs)}))

\* nat.scan: one mulAddWW for every group of n digits
RECURSIVE scanGroups(_, _, _, _, _, _)
scanFrom(r, digs, base, k, n) == scanGroups(r.h, r.z, digs, base, k, n)

scanGroups(h, z, digs, base, k, n) ==
    IF (k - 1) * n >= Len(digs) THEN [h |-> h, z |-> z]
    ELSE scanFrom(mulAddWW(h, z, digs, base, k, n), digs, base, k + 1, n)

\* the base prefix of a number text: "b", "o", "x", "0" (octal) or none
scanPrefix(t) ==
    IF Len(t) >= 2 /\ t[1] = "0"
    THEN CASE t[2] \in {"b", "B"} -> "b"
           [] t[2] \in {"o", "O"} -> "o"
           [] t[2] \in {"x", "X"} -> "x"
           [] OTHER -> "0"
    ELSE ""

scanBase(prefix) ==
    CASE prefix = "b" -> 2 [] prefix = "o" -> 8
      [] prefix = "x" -> 16 [] prefix = "0" -> 8 [] OTHER -> 10

\* what follows the prefix (a lone "0" is read as the prefix-less digit 0)
scanRest(t, prefix) ==
    CASE prefix \in {"b", "o", "x"} -> SubSeq(t, 3, Len(t))
      [] prefix = "0" -> Tail(t)
      [] t = <<"0">> -> <<>>
      [] OTHER -> t

\* positions where nat.scan stops: a character that is no digit of the base
scanStops(rest, base) ==
    {i \in 1..Len(rest) : rest[i] # "_" /\ scanDigit(rest[i]) >= base}

\* '_' must separate digits: after the prefix or a digit, before a digit
scanBadSep(rest, lead0) ==
    \/ \E i \in 1..Len(rest) :
          /\ rest[i] = "_"
          /\ IF i = 1 THEN ~lead0 ELSE rest[i - 1] = "_"
    \/ (rest # <<>> /\ rest[Len(rest)] = "_")

\* z.SetString result once the digits are known
bigSetDigits(h, neg, r) ==
    [h |-> r.h, x |-> [r.z EXCEPT !.neg = (r.z.len > 0 /\ neg)], err |-> NoErr]

\* nat.scan over the text after the prefix; the whole text must be consumed
bigScanRest(h, neg, t, prefix, base, rest) ==
    IF /\ t # <<>>
       /\ scanStops(rest, base) = {}
       /\ ~scanBadSep(rest, t[1] = "0")
       /\ (prefix = "0" \/ t = <<"0">> \/ \E i \in 1..Len(rest) : rest[i] # "_")
    THEN bigSetDigits(h, neg,
             scanGroups(h, ZeroInt, SelectSeq(rest, LAMBDA c : c # "_"), base, 1,
                        maxPowDigits(base)))
    ELSE [h |-> h, x |-> NilPtr,
          err |-> <<"math/big: cannot unmarshal %q into a *big.Int">>]

bigScanPrefix(h, neg, t, prefix) ==
    bigScanRest(h, neg, t, prefix, scanBase(prefix), scanRest(t, prefix))

\* (*big.Int).UnmarshalText on a fresh big.Int: sign, base prefix, digits with
\* '_' separators, and the whole text must be consumed
bigUnmarshalText(h, text) ==
    IF Len(text) >= 1 /\ text[1] \in {"+", "-"}
    THEN bigScanPrefix(h, text[1] = "-", Tail(text), scanPrefix(Tail(text)))
    ELSE bigScanPrefix(h, FALSE, text, scanPrefix(text))

\* ------------------------------------------------------------------------
\* Arguments of Scan: a value of type any
\* ------------------------------------------------------------------------
SrcNil == [type |-> "nil"]

SrcBytes(b) == [type |-> "[]byte", b |-> b]

SrcOther(t) == [type |-> t]

\* ------------------------------------------------------------------------
\* Revision "v2": src/uint256.go, src/bigutil.go
\* Every method takes the heap and returns the new heap with its results;
\* z is the receiver's field x, err the returned error.
\* ------------------------------------------------------------------------
is0x(s) == Len(s) = 2 /\ s[1] = "0" /\ s[2] = "x"

has0xPrefix(s) == Len(s) >= 2 /\ is0x(SubSeq(s, 1, 2))

\* setBigInt without the bit-length check
setBigInt_noLimit(h, z, x) ==
    IF IsNil(x) THEN [h |-> h, z |-> z, err |-> Panic]
    ELSE IF Sign(x) < 0
    THEN [h |-> h, z |-> z, err |-> <<"x must not be negative">>]
    ELSE [h |-> h, z |-> x, err |-> NoErr]

\* x256.x = *x copies the struct: the words stay shared with *x
setBigInt(h, z, x) ==
    IF IsNil(x) THEN [h |-> h, z |-> z, err |-> Panic]
    ELSE IF Sign(x) < 0
    THEN [h |-> h, z |-> z, err |-> <<"x must not be negative">>]
    ELSE IF BitLen(h, x) > maxBitLength
    THEN [h |-> h, z |-> z,
          err |-> <<"x must be less than or equal to %d bits">>]
    ELSE [h |-> h, z |-> x, err |-> NoErr]

NewUint256(h, x) ==
    LET r == setBigInt(h, ZeroInt, x)
    IN  IF r.err # NoErr THEN [h |-> r.h, z |-> ZeroInt, err |-> r.err] ELSE r


\* MustNewUint256 that hands back the error's zero value instead of panicking
MustNewUint256_noPanic(h, x) == NewUint256(h, x)

MustNewUint256(h, x) ==
    LET r == NewUint256(h, x)
    IN  IF r.err # NoErr
        THEN [h |-> r.h, z |-> ZeroInt,
              err |-> IF IsPanic(r.err) THEN r.err ELSE PanicWith(r.err)]
        ELSE r

NewUint256FromUint64(h, i) ==
    LET t == SetUint64(h, ZeroInt, i)
    IN  MustNewUint256(t.h, t.z)

\* setHex that does not put a digit back when every digit was a zero
setHex_noZeroDigit(h, z, s) ==
    LET b  == <<"0", "x">> \o TrimLeft(SubSeq(s, 3, Len(s)), "0")
        dx == DecodeBig(h, b)
    IN  IF ~has0xPrefix(s)
        THEN [h |-> h, z |-> z, err |-> <<"s must have 0x prefix">>]
        ELSE IF is0x(s)
        THEN [h |-> h, z |-> z, err |-> <<"s must not be 0x">>]
        ELSE IF dx.err # NoErr
        THEN [h |-> h, z |-> z, err |-> oopsWrap(dx.err)]
        ELSE setBigInt(dx.h, z, dx.x)

setHex(h, z, s) ==
    LET d  == TrimLeft(SubSeq(s, 3, Len(s)), "0")
        b  == IF is0x(<<"0", "x">> \o d) THEN <<"0", "x", "0">>
              ELSE <<"0", "x">> \o d
        dx == DecodeBig(h, b)
    IN  IF ~has0xPrefix(s)
        THEN [h |-> h, z |-> z, err |-> <<"s must have 0x prefix">>]
        ELSE IF is0x(s)
        THEN [h |-> h, z |-> z, err |-> <<"s must not be 0x">>]
        ELSE IF dx.err # NoErr
        THEN [h |-> h, z |-> z, err |-> oopsWrap(dx.err)]
        ELSE setBigInt(dx.h, z, dx.x)

NewUint256FromHex(h, s) ==
    LET r == setHex(h, ZeroInt, s)
    IN  IF r.err # NoErr THEN [h |-> r.h, z |-> ZeroInt, err |-> r.err] ELSE r

MustNewUint256FromHex(h, s) ==
    LET r == NewUint256FromHex(h, s)
    IN  IF r.err # NoErr
        THEN [h |-> r.h, z |-> ZeroInt,
              err |-> IF IsPanic(r.err) THEN r.err ELSE PanicWith(r.err)]
        ELSE r

\* the receiver is a copy of the struct; the pointer is to the copy's field
BigInt(h, z) == [h |-> h, x |-> z]


\* string that gives the digits without the 0x prefix
string_bare(h, z) == Text16(h, z)

string(h, z) == EncodeBig(h, z)

String(h, z) == string(h, z)

\* Value without the case for zero
Value_noZeroCase(h, z) == Bytes(h, z)

Value(h, z) == IF Len(Bytes(h, z)) = 0 THEN <<0>> ELSE Bytes(h, z)

\* Scan that decodes first and rejects by bit length instead of byte length
Scan_decodeFirst(h, z, src) ==
    IF src.type = "nil"
    THEN [h |-> h, z |-> z, err |-> <<"src must not be nil">>]
    ELSE IF src.type # "[]byte"
    THEN [h |-> h, z |-> z, err |-> <<"unexpected src type: %T">>]
    ELSE IF Len(src.b) = 0
    THEN [h |-> h, z |-> z, err |-> <<"src bytes must not be empty">>]
    ELSE LET r == SetBytes(h, ZeroInt, src.b)
         IN  setBigInt(r.h, z, r.z)

\* Scan without the check for an empty buffer
Scan_noEmptyCheck(h, z, src) ==
    IF src.type = "nil"
    THEN [h |-> h, z |-> z, err |-> <<"src must not be nil">>]
    ELSE IF src.type # "[]byte"
    THEN [h |-> h, z |-> z, err |-> <<"unexpected src type: %T">>]
    ELSE IF Len(src.b) > maxByteLength
    THEN [h |-> h, z |-> z,
          err |-> <<"src bytes must be less than or equal to %d bytes">>]
    ELSE LET r == SetBytes(h, z, src.b)
         IN  [h |-> r.h, z |-> r.z, err |-> NoErr]

\* Scan whose length check is off by one
Scan_offByOne(h, z, src) ==
    IF src.type = "nil"
    THEN [h |-> h, z |-> z, err |-> <<"src must not be nil">>]
    ELSE IF src.type # "[]byte"
    THEN [h |-> h, z |-> z, err |-> <<"unexpected src type: %T">>]
    ELSE IF Len(src.b) = 0
    THEN [h |-> h, z |-> z, err |-> <<"src bytes must not be empty">>]
    ELSE IF Len(src.b) >= maxByteLength
    THEN [h |-> h, z |-> z,
          err |-> <<"src bytes must be less than or equal to %d bytes">>]
    ELSE LET r == SetBytes(h, z, src.b)
         IN  [h |-> r.h, z |-> r.z, err |-> NoErr]

Scan(h, z, src) ==
    IF src.type = "nil"
    THEN [h |-> h, z |-> z, err |-> <<"src must not be nil">>]
    ELSE IF src.type # "[]byte"
    THEN [h |-> h, z |-> z, err |-> <<"unexpected src type: %T">>]
    ELSE IF Len(src.b) = 0
    THEN [h |-> h, z |-> z, err |-> <<"src bytes must not be empty">>]
    ELSE IF Len(src.b) > maxByteLength
    THEN [h |-> h, z |-> z,
          err |-> <<"src bytes must be less than or equal to %d bytes">>]
    ELSE LET r == SetBytes(h, z, src.b)
         IN  [h |-> r.h, z |-> r.z, err |-> NoErr]

MarshalText(h, z) == string(h, z)

\* the decimal branch of UnmarshalText, u the result of x.UnmarshalText(text)
setUnmarshalled(h, z, u) ==
    IF u.err # NoErr
    THEN [h |-> h, z |-> z, err |-> oopsWrap(u.err)]
    ELSE setBigInt(u.h, z, u.x)

UnmarshalText(h, z, text) ==
    IF has0xPrefix(text) THEN setHex(h, z, text)
    ELSE setUnmarshalled(h, z, bigUnmarshalText(h, text))

\* UnmarshalJSON that leaves the quotes of a JSON string in place
UnmarshalJSON_noUnquote(h, z, b) ==
    IF Len(b) = 0 THEN [h |-> h, z |-> z, err |-> Panic]
    ELSE UnmarshalText(h, z, b)

\* b[0] and b[1 : len(b)-1] are not guarded by a length check
UnmarshalJSON(h, z, b) ==
    IF Len(b) = 0 THEN [h |-> h, z |-> z, err |-> Panic]
    ELSE IF b[1] = "\"" /\ b[Len(b)] = "\""
    THEN IF Len(b) = 1 THEN [h |-> h, z |-> z, err |-> Panic]
         ELSE UnmarshalText(h, z, SubSeq(b, 2, Len(b) - 1))
    ELSE UnmarshalText(h, z, b)

\* ------------------------------------------------------------------------
\* Revision "p4": src/unnamed/part_004
\* ------------------------------------------------------------------------
HasPrefix(s, c1, c2) == Len(s) >= 2 /\ s[1] = c1 /\ s[2] = c2

WhiteSpace == {" ", "\t", "\n", "\r", "\f"}

\* strings.TrimSpace
TrimSpace(s) ==
    LET keep == {i \in 1..Len(s) : s[i] \notin WhiteSpace}
    IN  IF keep = {} THEN <<>> ELSE SubSeq(s, MinOf(keep), MaxOf(keep))

\* the character of a JSON \uXXXX escape ("?" stands for any other one)
unicodeChar(d) ==
    CASE d = <<"0", "0", "3", "0">> -> "0"
      [] d = <<"0", "0", "3", "1">> -> "1"
      [] d = <<"0", "0", "7", "8">> -> "x"
      [] OTHER -> "?"

\* the text of a JSON string body; ok is FALSE when the body is not valid.
\* A backslash starts an escape when an even number of backslashes precede it.
jsonUnquote(c) ==
    LET n        == Len(c)
        run(i)   == i - 1 - MaxOf({0} \cup {j \in 1..(i - 1) : c[j] # "\\"})
        esc(i)   == i >= 1 /\ c[i] = "\\" /\ run(i) % 2 = 0
        uni(i)   == esc(i) /\ i < n /\ c[i + 1] = "u"
        inUni(i) == \E k \in 2..5 : i - k >= 1 /\ uni(i - k)
        okEsc(i) ==
            /\ i < n
            /\ \/ c[i + 1] \in {"\"", "\\", "/", "b", "f", "n", "r", "t"}
               \/ /\ c[i + 1] = "u"
                  /\ i + 5 <= n
                  /\ \A k \in 2..5 : decodeNibble(c[i + k]) # -1
        plain(i) == ~esc(i) /\ ~esc(i - 1) /\ ~inUni(i)
        bad(i)   == \/ esc(i) /\ ~okEsc(i)
                    \/ plain(i) /\ c[i] \in {"\"", "\t", "\n", "\r", "\f"}
        char(i)  ==
            IF ~esc(i) THEN c[i]
            ELSE CASE c[i + 1] = "n" -> "\n" [] c[i + 1] = "t" -> "\t"
                   [] c[i + 1] = "r" -> "\r" [] c[i + 1] = "f" -> "\f"
                   [] c[i + 1] = "b" -> "?"
                   [] c[i + 1] = "u" -> unicodeChar(SubSeq(c, i + 2, i + 5))
                   [] OTHER -> c[i + 1]
        kept     == SelectSeq([i \in 1..n |-> i], LAMBDA i : esc(i) \/ plain(i))
    IN  IF \E i \in 1..n : bad(i) THEN [ok |-> FALSE, s |-> <<>>]
        ELSE [ok |-> TRUE, s |-> [k \in 1..Len(kept) |-> char(kept[k])]]


\* setBigInt that copies the words before it checks the sign and the length
setBigInt_p4_setFirst(h, z, x) ==
    IF IsNil(x) THEN [h |-> h, z |-> z, err |-> <<"invalid big.Int: nil">>]
    ELSE LET r == Set(h, z, x)
         IN  IF Sign(x) < 0
             THEN [h |-> r.h, z |-> r.z, err |-> <<"invalid big.Int: negative">>]
             ELSE IF BitLen(h, x) > maxUint256Bits
             THEN [h |-> r.h, z |-> r.z, err |-> <<"invalid big.Int: exceeds %d bits">>]
             ELSE [h |-> r.h, z |-> r.z, err |-> NoErr]

\* x256.x.Set(x) copies the words into storage of the receiver
setBigInt_p4(h, z, x) ==
    IF IsNil(x) THEN [h |-> h, z |-> z, err |-> <<"invalid big.Int: nil">>]
    ELSE IF Sign(x) < 0
    THEN [h |-> h, z |-> z, err |-> <<"invalid big.Int: negative">>]
    ELSE IF BitLen(h, x) > maxUint256Bits
    THEN [h |-> h, z |-> z, err |-> <<"invalid big.Int: exceeds %d bits">>]
    ELSE LET r == Set(h, z, x)
         IN  [h |-> r.h, z |-> r.z, err |-> NoErr]

NewUint256_p4(h, x) ==
    LET r == setBigInt_p4(h, ZeroInt, x)
    IN  IF r.err # NoErr THEN [h |-> r.h, z |-> ZeroInt, err |-> r.err] ELSE r

MustNewUint256_p4(h, x) ==
    LET r == NewUint256_p4(h, x)
    IN  IF r.err # NoErr
        THEN [h |-> r.h, z |-> ZeroInt, err |-> PanicWith(r.err)]
        ELSE r

\* setHex that drops the decoder's error and leaves the receiver as it is
setHex_p4_lenient(h, z, s) ==
    LET d  == TrimLeft(SubSeq(s, 3, Len(s)), "0")
        s2 == <<"0", "x">> \o (IF Len(d) = 0 THEN <<"0">> ELSE d)
        dx == DecodeBig(h, s2)
    IN  IF ~HasPrefix(s, "0", "x") /\ ~HasPrefix(s, "0", "X")
        THEN [h |-> h, z |-> z,
              err |-> <<"invalid hex string: missing 0x/0X prefix">>]
        ELSE IF Len(s) = 2
        THEN [h |-> h, z |-> z, err |-> <<"invalid hex string: empty">>]
        ELSE IF dx.err # NoErr
        THEN [h |-> h, z |-> z, err |-> NoErr]
        ELSE setBigInt_p4(dx.h, z, dx.x)

\* setHex that hands the digits to the decoder with their leading zeros
setHex_p4_noStrip(h, z, s) ==
    LET dx == DecodeBig(h, s)
    IN  IF ~HasPrefix(s, "0", "x") /\ ~HasPrefix(s, "0", "X")
        THEN [h |-> h, z |-> z,
              err |-> <<"invalid hex string: missing 0x/0X prefix">>]
        ELSE IF Len(s) = 2
        THEN [h |-> h, z |-> z, err |-> <<"invalid hex string: empty">>]
        ELSE IF dx.err # NoErr
        THEN [h |-> h, z |-> z, err |-> <<"invalid hex string">> \o dx.err]
        ELSE setBigInt_p4(dx.h, z, dx.x)

setHex_p4(h, z, s) ==
    LET d  == TrimLeft(SubSeq(s, 3, Len(s)), "0")
        s2 == <<"0", "x">> \o (IF Len(d) = 0 THEN <<"0">> ELSE d)
        dx == DecodeBig(h, s2)
    IN  IF ~HasPrefix(s, "0", "x") /\ ~HasPrefix(s, "0", "X")
        THEN [h |-> h, z |-> z,
              err |-> <<"invalid hex string: missing 0x/0X prefix">>]
        ELSE IF Len(s) = 2
        THEN [h |-> h, z |-> z, err |-> <<"invalid hex string: empty">>]
        ELSE IF dx.err # NoErr
        THEN [h |-> h, z |-> z, err |-> <<"invalid hex string">> \o dx.err]
        ELSE setBigInt_p4(dx.h, z, dx.x)

NewUint256FromHex_p4(h, s) ==
    LET r == setHex_p4(h, ZeroInt, s)
    IN  IF r.err # NoErr THEN [h |-> r.h, z |-> ZeroInt, err |-> r.err] ELSE r

MustNewUint256FromHex_p4(h, s) ==
    LET r == NewUint256FromHex_p4(h, s)
    IN  IF r.err # NoErr
        THEN [h |-> r.h, z |-> ZeroInt, err |-> PanicWith(r.err)]
        ELSE r

NewUint256FromUint64_p4(h, i) ==
    LET r == SetUint64(h, ZeroInt, i)
    IN  [h |-> r.h, z |-> r.z, err |-> NoErr]

\* a new big.Int that gets a copy of the words

\* BigInt that hands the receiver's words over and clears them in the receiver
BigInt_p4_drain(h, z) ==
    LET r == Set(h, ZeroInt, z)
    IN  [h |-> IF z.len = 0 THEN r.h ELSE Store(r.h, z.arr, Rep(0, Len(r.h[z.arr]))),
         x |-> r.z]

BigInt_p4(h, z) ==
    LET r == Set(h, ZeroInt, z)
    IN  [h |-> r.h, x |-> r.z]

String_p4(h, z) == <<"0", "x">> \o Text16(h, z)

\* Value without the case for zero
Value_p4_noZeroCase(h, z) == Bytes(h, z)

Value_p4(h, z) == IF Len(Bytes(h, z)) = 0 THEN <<0>> ELSE Bytes(h, z)

Scan_p4(h, z, src) ==
    IF src.type = "nil"
    THEN [h |-> h, z |-> z, err |-> <<"invalid source: nil">>]
    ELSE IF src.type # "[]byte"
    THEN [h |-> h, z |-> z, err |-> <<"unsupported source type: %T">>]
    ELSE IF Len(src.b) = 0
    THEN [h |-> h, z |-> z, err |-> <<"invalid source: empty bytes">>]
    ELSE IF Len(src.b) > maxUint256Bytes
    THEN [h |-> h, z |-> z, err |-> <<"invalid source: exceeds %d bytes">>]
    ELSE LET x == SetBytes(h, ZeroInt, src.b)
         IN  setBigInt_p4(x.h, z, x.z)

MarshalText_p4(h, z) == String_p4(h, z)

\* the decimal branch of UnmarshalText, u the result of x.UnmarshalText
setUnmarshalled_p4(h, z, u) ==
    IF u.err # NoErr THEN [h |-> h, z |-> z, err |-> u.err]
    ELSE setBigInt_p4(u.h, z, u.x)

\* UnmarshalText on the trimmed text
unmarshalTrimmed_p4(h, z, s) ==
    IF HasPrefix(s, "0", "x") \/ HasPrefix(s, "0", "X")
    THEN setHex_p4(h, z, s)
    ELSE setUnmarshalled_p4(h, z, bigUnmarshalText(h, s))

UnmarshalText_p4(h, z, text) == unmarshalTrimmed_p4(h, z, TrimSpace(text))

UnmarshalJSON_p4(h, z, b) ==
    LET q == jsonUnquote(SubSeq(b, 2, Len(b) - 1))
    IN  IF Len(b) = 0
        THEN [h |-> h, z |-> z, err |-> <<"invalid json value: empty">>]
        ELSE IF b = <<"n", "u", "l", "l">>
        THEN [h |-> h, z |-> z, err |-> <<"invalid json value: null">>]
        ELSE IF Len(b) >= 2 /\ b[1] = "\"" /\ b[Len(b)] = "\""
        THEN IF ~q.ok
             THEN [h |-> h, z |-> z,
                   err |-> <<"invalid json string", "json: %v">>]
             ELSE UnmarshalText_p4(h, z, q.s)
        ELSE UnmarshalText_p4(h, z, b)

\* ------------------------------------------------------------------------
\* Inputs
\* ------------------------------------------------------------------------
\* byte buffers: small values behind leading zero bytes, powers of two with
\* trailing zero bytes and runs of 0xff, around the word and the 32-byte limits
ByteInputs ==
    {Rep(0, k) \o t : k \in {0, 1, maxByteLength - 1, maxByteLength},
                      t \in {<<>>, <<0>>, <<1>>, <<255>>}}
    \cup {<<1>> \o Rep(0, n) : n \in {WordBytes, maxByteLength - 1, maxByteLength}}
    \cup {Rep(255, n) : n \in {WordBytes, maxByteLength, maxByteLength + 1}}

\* what a caller passes to Scan
ScanInputs ==
    {SrcNil, SrcOther("int64"), SrcOther("uint64"), SrcOther("string")}
    \cup {SrcBytes(b) : b \in ByteInputs}

\* uint64 arguments, as their 8 big-endian bytes
Uint64Inputs ==
    {Rep(0, 8), Rep(0, 7) \o <<1>>, Rep(0, 6) \o <<1, 0>>, Rep(255, 8)}

HexBodies ==
    {<<>>, <<"0">>, <<"1">>, <<"f">>, <<"F">>, <<"g">>, <<"1", "0">>,
     Rep("f", 16), Rep("f", 17), Rep("f", 64), <<"1">> \o Rep("0", 64),
     [i \in 1..64 |-> IF i % 2 = 1 THEN "f" ELSE "F"], <<"g">> \o Rep("0", 64)}

\* hex text: both prefixes, leading zeros, and text without a prefix
HexInputs ==
    {p \o Rep("0", k) \o d : p \in {<<"0", "x">>, <<"0", "X">>},
                             k \in 0..MaxLead, d \in HexBodies}
    \cup {<<"0", "x">> \o Rep("0", 64), <<"0", "x">> \o Rep("0", 63) \o <<"1">>}
    \cup {<<"0", "x">> \o Rep("0", 64) \o Rep("f", 64)}
    \cup {<<>>, <<"0">>, <<"1", "f">>}

\* text that is not hex: decimal literals and what a decimal parser may refuse
DecInputs ==
    {<<>>, <<"0">>, <<"7">>, <<"0", "1", "0">>, <<"2", "5", "6">>,
     <<"-", "1">>, <<"+", "1">>, <<"1", "_", "0">>, <<"0", "b", "1">>,
     <<" ", "1">>, <<"1", "a">>, Rep("9", 20), Rep("9", 78)}

\* 2^256 - 1 and 2^256 in decimal digits
DecMaxUint256 ==
    <<"1", "1", "5", "7", "9", "2", "0", "8", "9", "2", "3", "7", "3",
      "1", "6", "1", "9", "5", "4", "2", "3", "5", "7", "0", "9", "8",
      "5", "0", "0", "8", "6", "8", "7", "9", "0", "7", "8", "5", "3",
      "2", "6", "9", "9", "8", "4", "6", "6", "5", "6", "4", "0", "5",
      "6", "4", "0", "3", "9", "4", "5", "7", "5", "8", "4", "0", "0",
      "7", "9", "1", "3", "1", "2", "9", "6", "3", "9", "9", "3", "5">>

DecOverUint256 ==
    <<"1", "1", "5", "7", "9", "2", "0", "8", "9", "2", "3", "7", "3",
      "1", "6", "1", "9", "5", "4", "2", "3", "5", "7", "0", "9", "8",
      "5", "0", "0", "8", "6", "8", "7", "9", "0", "7", "8", "5", "3",
      "2", "6", "9", "9", "8", "4", "6", "6", "5", "6", "4", "0", "5",
      "6", "4", "0", "3", "9", "4", "5", "7", "5", "8", "4", "0", "0",
      "7", "9", "1", "3", "1", "2", "9", "6", "3", "9", "9", "3", "6">>

\* text for UnmarshalText: decimal literals, what a strict decimal parser
\* refuses, white space around and inside, and hex text in both cases
TextInputs ==
    DecInputs
    \cup {DecMaxUint256, DecOverUint256, <<"-", "0">>, <<"1", " ", "0">>,
          <<"0", "o", "7">>, <<"0", "0">>, <<" ">>}
    \cup {<<" ", "7">>, <<"7", "\n">>, <<"\t", "7", " ">>}
    \cup {<<"0", "x", "1", "f">>, <<"0", "X", "1", "f">>, <<"0", "x">>,
          <<" ", "0", "x", "1">>, <<"0", "x", "1", "\n">>, <<"0", "x", "g">>,
          <<"0", "x", "0", "0">>, <<"0", "x", "1">> \o Rep("0", 64)}

Quoted(s) == <<"\"">> \o s \o <<"\"">>

JSONInputs ==
    {<<>>, <<"\"">>, <<"n", "u", "l", "l">>, <<"7">>, <<"0", ".", "0">>,
     <<"0", "x", "1">>, Quoted(<<"7">>), Quoted(<<"0", "x", "1">>),
     Quoted(<<"0", "X", "f">>), Quoted(<<"0", "x", "\\", "x">>),
     Quoted(<<>>), <<"-", "1">>, <<"0", "e", "0">>, <<"0", "X", "1">>,
     <<"1", "0">>, DecMaxUint256, DecOverUint256, Quoted(DecMaxUint256),
     Quoted(DecOverUint256), Quoted(<<"-", "1">>), Quoted(<<"0", "x">>),
     Quoted(<<"0", "x", "g">>), Quoted(<<"0", "x", "1">> \o Rep("0", 64)),
     Quoted(<<"i", "n", "v", "a", "l", "i", "d">>), Quoted(<<" ", "7">>),
     Quoted(<<"\\", "u", "0", "0", "3", "1">>), <<"\"", "7">>}

\* what NewUint256 is called with: nil, -b or b
BigIntInputs ==
    {[kind |-> "nil"], [kind |-> "neg", b |-> <<1>>]}
    \cup {[kind |-> "pos", b |-> b] :
            b \in {<<>>, <<1>>, Rep(255, WordBytes + 1), Rep(255, maxByteLength),
                   <<1>> \o Rep(0, maxByteLength)}}

\* the boundary cases of each input set, for runs over all calls at once
ScanFew ==
    {SrcNil, SrcOther("int64"), SrcBytes(<<>>), SrcBytes(<<0>>),
     SrcBytes(Rep(255, maxByteLength)), SrcBytes(Rep(0, maxByteLength + 1)),
     SrcBytes(<<1>> \o Rep(0, maxByteLength))}

HexFew ==
    {<<>>, <<"0", "x">>, <<"0", "x", "0">>, <<"0", "X", "1">>, <<"0", "x", "g">>,
     <<"0", "x">> \o Rep("f", 64), <<"0", "x", "1">> \o Rep("0", 64)}

TextFew ==
    {<<>>, <<"7">>, <<"-", "1">>, <<"0", "x", "f">>, <<" ", "0", "X", "1">>,
     Rep("9", 78)}

JSONFew ==
    {<<>>, <<"\"">>, <<"n", "u", "l", "l">>, <<"7">>, <<"-", "1">>,
     Quoted(<<"0", "x", "1">>), Quoted(Rep("9", 78))}

\* ------------------------------------------------------------------------
\* State of a client of the package
\* ------------------------------------------------------------------------
VARIABLES
    rev,    \* the revision of uint256.go in use
    heap,   \* backing arrays of the big.Int values
    x,      \* the caller's *big.Int (NilPtr when nil)
    v, w,   \* two variables of type Uint256: their field x
    r, q,   \* the results of the last and the last-but-one BigInt() call
    snap,   \* what v rendered to when the caller handed over or took a big.Int
    ret     \* the last call and what it returned

vars == <<rev, heap, x, v, w, r, q, snap, ret>>

Revs == {"v2", "p4"}

NoSnap == [kind |-> "none"]

\* ------------------------------------------------------------------------
\* Dispatch on the revision
\* ------------------------------------------------------------------------
DoNewUint256(h, xx) == IF rev = "v2" THEN NewUint256(h, xx) ELSE NewUint256_p4(h, xx)

DoFromUint64(h, i) ==
    IF rev = "v2" THEN NewUint256FromUint64(h, i) ELSE NewUint256FromUint64_p4(h, i)

DoFromHex(h, s) ==
    IF rev = "v2" THEN NewUint256FromHex(h, s) ELSE NewUint256FromHex_p4(h, s)


DoMustNewUint256(h, xx) ==
    IF rev = "v2" THEN MustNewUint256(h, xx) ELSE MustNewUint256_p4(h, xx)

DoMustFromHex(h, s) ==
    IF rev = "v2" THEN MustNewUint256FromHex(h, s) ELSE MustNewUint256FromHex_p4(h, s)

DoBigInt(h, z) == IF rev = "v2" THEN BigInt(h, z) ELSE BigInt_p4(h, z)

DoString(h, z) == IF rev = "v2" THEN String(h, z) ELSE String_p4(h, z)

DoValue(h, z) == IF rev = "v2" THEN Value(h, z) ELSE Value_p4(h, z)

DoMarshalText(h, z) == IF rev = "v2" THEN MarshalText(h, z) ELSE MarshalText_p4(h, z)

DoScan(h, z, src) == IF rev = "v2" THEN Scan(h, z, src) ELSE Scan_p4(h, z, src)

DoUnmarshalText(h, z, t) ==
    IF rev = "v2" THEN UnmarshalText(h, z, t) ELSE UnmarshalText_p4(h, z, t)

DoUnmarshalJSON(h, z, b) ==
    IF rev = "v2" THEN UnmarshalJSON(h, z, b) ELSE UnmarshalJSON_p4(h, z, b)

\* ------------------------------------------------------------------------
\* encoding/json on a value with MarshalText: the text as a JSON string token
\* ------------------------------------------------------------------------
\* a JSON string token: '"' and '\' get a backslash in front
jsonQuote(s) ==
    <<"\"">>
    \o SelectSeq([k \in 1..(2 * Len(s)) |->
                     IF k % 2 = 0 THEN s[k \div 2]
                     ELSE IF s[(k + 1) \div 2] \in {"\"", "\\"} THEN "\\" ELSE ""],
                 LAMBDA c : c # "")
    \o <<"\"">>

\* json.Marshal that writes the text as it is, a bare token
jsonMarshal_bare(h, z) == DoMarshalText(h, z)

\* json.Marshal(v)
jsonMarshal(h, z) == jsonQuote(DoMarshalText(h, z))

\* ------------------------------------------------------------------------
\* Garbage collection: arrays no variable refers to are dropped, the others
\* are numbered in the order x, v, w, r, q, and words past the longest slice
\* over an array (which no read can reach before a write) are cleared.
\* ------------------------------------------------------------------------
ArrOf(p) == IF IsNil(p) THEN 0 ELSE p.arr

LenOf(p) == IF IsNil(p) THEN 0 ELSE p.len

Repoint(p, f) == IF IsNil(p) THEN p ELSE [p EXCEPT !.arr = f[p.arr]]

Collect(h, X, V, W, R, Q) ==
    LET ps     == <<X, V, W, R, Q>>
        order  == [i \in 1..5 |-> ArrOf(ps[i])]
        live   == {order[i] : i \in 1..5} \ {0}
        first(a) == MinOf({i \in 1..5 : order[i] = a})
        f      == [a \in 0..MaxArr |->
                     IF a \in live
                     THEN Cardinality({order[j] : j \in 1..first(a)} \ {0})
                     ELSE 0]
        reach(a) == MaxOf({LenOf(ps[i]) : i \in {j \in 1..5 : order[j] = a}})
        clean(a) == SubSeq(h[a], 1, reach(a) * WordBytes)
                    \o Rep(0, Len(h[a]) - reach(a) * WordBytes)
        h2     == [b \in ArrIds |->
                     IF \E a \in live : f[a] = b
                     THEN clean(CHOOSE a \in live : f[a] = b)
                     ELSE <<>>]
    IN  [h |-> h2, x |-> Repoint(X, f), v |-> Repoint(V, f), w |-> Repoint(W, f),
         r |-> Repoint(R, f), q |-> Repoint(Q, f)]

Commit(h, X, V, W, R, Q) ==
    LET c == Collect(h, X, V, W, R, Q)
    IN  /\ heap' = c.h
        /\ x' = c.x
        /\ v' = c.v
        /\ w' = c.w
        /\ r' = c.r
        /\ q' = c.q

Init ==
    /\ rev \in Revs
    /\ heap = EmptyHeap
    /\ x = NilPtr
    /\ v = ZeroInt
    /\ w = ZeroInt
    /\ r = NilPtr
    /\ q = NilPtr
    /\ snap = NoSnap
    /\ ret = [op |-> "init", err |-> NoErr]

\* a panic ends the program
Running == ~IsPanic(ret.err)

\* new(big.Int).SetBytes(b), its negation, or nil
MakeBigInt(h, xin) ==
    IF xin.kind = "nil" THEN [h |-> h, z |-> NilPtr]
    ELSE LET sb == SetBytes(h, ZeroInt, xin.b)
         IN  [h |-> sb.h,
              z |-> [sb.z EXCEPT !.neg = (xin.kind = "neg" /\ sb.z.len > 0)]]

\* the magnitude a big.Int holds, in canonical form: its big-endian bytes
\* without leading zero bytes (<<>> for 0)
Mag(h, z) == TrimLeft(Reverse(AbsLE(h, z)), 0)

\* how a *big.Int reads: its sign and hex digits
BigObs(h, p) == IF IsNil(p) THEN <<"nil">> ELSE Text16(h, p)

\* what the three accessors of v give
Observe(h, z) ==
    [str |-> DoString(h, z), val |-> DoValue(h, z),
     big |-> BigObs(DoBigInt(h, z).h, DoBigInt(h, z).x)]

\* ------------------------------------------------------------------------
\* Calls of the package on the variable v
\* ------------------------------------------------------------------------
\* v, err = NewUint256(x) for a big.Int the caller does not keep
CallNewUint256(xin) ==
    /\ Running
    /\ LET cx == MakeBigInt(heap, xin)
           n  == DoNewUint256(cx.h, cx.z)
       IN  /\ Commit(n.h, x, n.z, w, r, q)
           /\ ret' = [op |-> "NewUint256", arg |-> xin, err |-> n.err]
    /\ snap' = NoSnap
    /\ UNCHANGED rev

CallNewUint256FromUint64(i) ==
    /\ Running
    /\ LET n == DoFromUint64(heap, i)
       IN  /\ Commit(n.h, x, n.z, w, r, q)
           /\ ret' = [op |-> "NewUint256FromUint64", arg |-> i, err |-> n.err]
    /\ snap' = NoSnap
    /\ UNCHANGED rev

CallNewUint256FromHex(s) ==
    /\ Running
    /\ LET n == DoFromHex(heap, s)
       IN  /\ Commit(n.h, x, n.z, w, r, q)
           /\ ret' = [op |-> "NewUint256FromHex", arg |-> s, err |-> n.err]
    /\ snap' = NoSnap
    /\ UNCHANGED rev

CallScan(src) ==
    /\ Running
    /\ LET n == DoScan(heap, v, src)
       IN  /\ Commit(n.h, x, n.z, w, r, q)
           /\ ret' = [op |-> "Scan", arg |-> src, err |-> n.err]
    /\ snap' = NoSnap
    /\ UNCHANGED rev

CallUnmarshalText(text) ==
    /\ Running
    /\ LET n == DoUnmarshalText(heap, v, text)
       IN  /\ Commit(n.h, x, n.z, w, r, q)
           /\ ret' = [op |-> "UnmarshalText", arg |-> text, err |-> n.err]
    /\ snap' = NoSnap
    /\ UNCHANGED rev

CallUnmarshalJSON(b) ==
    /\ Running
    /\ LET n == DoUnmarshalJSON(heap, v, b)
       IN  /\ Commit(n.h, x, n.z, w, r, q)
           /\ ret' = [op |-> "UnmarshalJSON", arg |-> b, err |-> n.err]
    /\ snap' = NoSnap
    /\ UNCHANGED rev

\* s := v.String(); b, _ := v.Value(); b, _ := v.MarshalText()
CallString ==
    /\ Running
    /\ ret' = [op |-> "String", out |-> DoString(heap, v), err |-> NoErr]
    /\ UNCHANGED <<rev, heap, x, v, w, r, q, snap>>

CallValue ==
    /\ Running
    /\ ret' = [op |-> "Value", out |-> DoValue(heap, v), err |-> NoErr]
    /\ UNCHANGED <<rev, heap, x, v, w, r, q, snap>>

CallMarshalText ==
    /\ Running
    /\ ret' = [op |-> "MarshalText", out |-> DoMarshalText(heap, v), err |-> NoErr]
    /\ UNCHANGED <<rev, heap, x, v, w, r, q, snap>>

\* var u Uint256; b, _ := v.Value(); err := u.Scan(b); got is what u holds
RoundTripBytes ==
    /\ Running
    /\ LET b == DoValue(heap, v)
           n == DoScan(heap, ZeroInt, SrcBytes(b))
       IN  ret' = [op |-> "RoundTripBytes", arg |-> b, err |-> n.err,
                   got |-> Mag(n.h, n.z)]
    /\ UNCHANGED <<rev, heap, x, v, w, r, q, snap>>

\* u, err := NewUint256FromHex(v.String())
RoundTripHex ==
    /\ Running
    /\ LET s == DoString(heap, v)
           n == DoFromHex(heap, s)
       IN  ret' = [op |-> "RoundTripHex", arg |-> s, err |-> n.err,
                   got |-> Mag(n.h, n.z)]
    /\ UNCHANGED <<rev, heap, x, v, w, r, q, snap>>

\* var u Uint256; b, _ := v.MarshalText(); err := u.UnmarshalText(b)
RoundTripText ==
    /\ Running
    /\ LET s == DoMarshalText(heap, v)
           n == DoUnmarshalText(heap, ZeroInt, s)
       IN  ret' = [op |-> "RoundTripText", arg |-> s, err |-> n.err,
                   got |-> Mag(n.h, n.z)]
    /\ UNCHANGED <<rev, heap, x, v, w, r, q, snap>>

\* b, _ := json.Marshal(v)
CallMarshalJSON ==
    /\ Running
    /\ ret' = [op |-> "MarshalJSON", out |-> jsonMarshal(heap, v), err |-> NoErr]
    /\ UNCHANGED <<rev, heap, x, v, w, r, q, snap>>

\* var u Uint256; b, _ := json.Marshal(v); err := json.Unmarshal(b, &u)
RoundTripJSON ==
    /\ Running
    /\ LET s == jsonMarshal(heap, v)
           n == DoUnmarshalJSON(heap, ZeroInt, s)
       IN  ret' = [op |-> "RoundTripJSON", arg |-> s, err |-> n.err,
                   got |-> Mag(n.h, n.z)]
    /\ UNCHANGED <<rev, heap, x, v, w, r, q, snap>>


\* v = MustNewUint256(x): a panic leaves v unassigned. "same" is what
\* NewUint256(x) gives for the same x.
CallMustNewUint256(xin) ==
    /\ Running
    /\ LET cx == MakeBigInt(heap, xin)
           n  == DoMustNewUint256(cx.h, cx.z)
           f  == DoNewUint256(cx.h, cx.z)
       IN  /\ IF IsPanic(n.err)
              THEN UNCHANGED <<heap, x, v, w, r, q>>
              ELSE Commit(n.h, x, n.z, w, r, q)
           /\ ret' = [op |-> "MustNewUint256", arg |-> xin, err |-> n.err,
                      same |-> [err |-> f.err, got |-> Mag(f.h, f.z)]]
    /\ snap' = NoSnap
    /\ UNCHANGED rev

\* v = MustNewUint256FromHex(s)
CallMustNewUint256FromHex(s) ==
    /\ Running
    /\ LET n == DoMustFromHex(heap, s)
           f == DoFromHex(heap, s)
       IN  /\ IF IsPanic(n.err)
              THEN UNCHANGED <<heap, x, v, w, r, q>>
              ELSE Commit(n.h, x, n.z, w, r, q)
           /\ ret' = [op |-> "MustNewUint256FromHex", arg |-> s, err |-> n.err,
                      same |-> [err |-> f.err, got |-> Mag(f.h, f.z)]]
    /\ snap' = NoSnap
    /\ UNCHANGED rev


\* ------------------------------------------------------------------------
\* Goroutines that call the read-only methods of v at the same time. Each
\* call takes two steps: the value receiver is copied, then the body runs.
\* The copy of the struct holds v's slice header, and v is not assigned while
\* the readers run, so the body is evaluated on v. Reader 1 keeps the result
\* of BigInt() in r, reader 2 in q.
\* ------------------------------------------------------------------------
Readers == {1, 2}

ReadCalls == {"String", "Value", "MarshalText", "BigInt"}

Reading == ret.op = "readers" /\ \E p \in Readers : ret.procs[p].pc # "done"

\* the arrays a variable of the program refers to
SharedArrs == {ArrOf(x), ArrOf(v), ArrOf(w), ArrOf(r), ArrOf(q)} \ {0}

\* what a read-only call returns, as the caller reads it
ReadOut(c, h, z) ==
    CASE c = "String" -> DoString(h, z)
      [] c = "Value" -> DoValue(h, z)
      [] c = "MarshalText" -> DoMarshalText(h, z)
      [] c = "BigInt" -> BigObs(DoBigInt(h, z).h, DoBigInt(h, z).x)

\* go func() { ... }() twice; results of earlier calls are dropped
StartReaders ==
    /\ Running
    /\ ~Reading
    /\ ret' = [op |-> "readers", err |-> NoErr, wroteShared |-> FALSE,
               procs |-> [p \in Readers |-> [pc |-> "idle", call |-> "none", out |-> <<>>]]]
    /\ snap' = [kind |-> "readers", obs |-> Observe(heap, v)]
    /\ Commit(heap, x, v, w, NilPtr, NilPtr)
    /\ UNCHANGED rev

\* reader p enters a method: the receiver is copied
ReaderCopy(p, c) ==
    /\ Reading
    /\ ret.procs[p].pc = "idle"
    /\ ret' = [ret EXCEPT !.procs[p] = [pc |-> "copied", call |-> c, out |-> <<>>]]
    /\ UNCHANGED <<rev, heap, x, v, w, r, q, snap>>

\* reader p runs the body of the method and returns
ReaderRun(p) ==
    /\ Reading
    /\ ret.procs[p].pc = "copied"
    /\ LET c  == ret.procs[p].call
           b  == IF c = "BigInt" THEN DoBigInt(heap, v) ELSE [h |-> heap, x |-> NilPtr]
           wr == {a \in SharedArrs : b.h[a] # heap[a]}
       IN  /\ IF c = "BigInt"
              THEN Commit(b.h, x, v, w, IF p = 1 THEN b.x ELSE r, IF p = 2 THEN b.x ELSE q)
              ELSE UNCHANGED <<heap, x, v, w, r, q>>
           /\ ret' = [ret EXCEPT !.procs[p].pc = "done",
                                 !.procs[p].out = ReadOut(c, heap, v),
                                 !.wroteShared = ret.wroteShared \/ wr # {}]
    /\ UNCHANGED <<rev, snap>>


\* ------------------------------------------------------------------------
\* Assignment of one Uint256 to another, and decoding into the copy
\* ------------------------------------------------------------------------
\* w := v: the struct is copied, the slice header of x.abs with it
AssignW ==
    /\ Running
    /\ Commit(heap, x, v, v, r, q)
    /\ snap' = [kind |-> "assign", obs |-> Observe(heap, v)]
    /\ ret' = [op |-> "Assign", err |-> NoErr]
    /\ UNCHANGED rev

\* err := w.Scan(src)
WScan(src) ==
    /\ Running
    /\ LET n == DoScan(heap, w, src)
       IN  /\ Commit(n.h, x, v, n.z, r, q)
           /\ ret' = [op |-> "w.Scan", arg |-> src, err |-> n.err]
    /\ UNCHANGED <<rev, snap>>

\* err := w.UnmarshalText(text)
WUnmarshalText(text) ==
    /\ Running
    /\ LET n == DoUnmarshalText(heap, w, text)
       IN  /\ Commit(n.h, x, v, n.z, r, q)
           /\ ret' = [op |-> "w.UnmarshalText", arg |-> text, err |-> n.err]
    /\ UNCHANGED <<rev, snap>>

\* err := w.UnmarshalJSON(b)
WUnmarshalJSON(b) ==
    /\ Running
    /\ LET n == DoUnmarshalJSON(heap, w, b)
       IN  /\ Commit(n.h, x, v, n.z, r, q)
           /\ ret' = [op |-> "w.UnmarshalJSON", arg |-> b, err |-> n.err]
    /\ UNCHANGED <<rev, snap>>

\* ------------------------------------------------------------------------
\* A caller that keeps the big.Int it passes in and the ones it gets back
\* ------------------------------------------------------------------------
\* x := new(big.Int).SetBytes(b), or its negation, or nil
CallerNew(xin) ==
    /\ Running
    /\ LET cx == MakeBigInt(heap, xin)
       IN  Commit(cx.h, cx.z, v, w, r, q)
    /\ ret' = [op |-> "new(big.Int)", arg |-> xin, err |-> NoErr]
    /\ snap' = NoSnap
    /\ UNCHANGED rev

\* v, err = NewUint256(x)
CallNewUint256OfX ==
    /\ Running
    /\ LET n == DoNewUint256(heap, x)
       IN  /\ Commit(n.h, x, n.z, w, r, q)
           /\ ret' = [op |-> "NewUint256(x)", err |-> n.err]
           /\ snap' = IF n.err = NoErr
                      THEN [kind |-> "x", obs |-> Observe(n.h, n.z)]
                      ELSE NoSnap
    /\ UNCHANGED rev

\* x.SetInt64(-1)
CallerSetInt64 ==
    /\ Running
    /\ ~IsNil(x)
    /\ LET m == SetMinusOne(heap, x)
       IN  Commit(m.h, m.z, v, w, r, q)
    /\ ret' = [op |-> "x.SetInt64", err |-> NoErr]
    /\ UNCHANGED <<rev, snap>>

\* x.SetBytes(b)
CallerSetBytes(b) ==
    /\ Running
    /\ ~IsNil(x)
    /\ LET m == SetBytes(heap, x, b)
       IN  Commit(m.h, m.z, v, w, r, q)
    /\ ret' = [op |-> "x.SetBytes", arg |-> b, err |-> NoErr]
    /\ UNCHANGED <<rev, snap>>

\* q = r; r = v.BigInt()
CallBigInt ==
    /\ Running
    /\ LET n == DoBigInt(heap, v)
       IN  /\ Commit(n.h, x, v, w, n.x, r)
           /\ snap' = [kind |-> "r", obs |-> Observe(heap, v),
                       prev |-> BigObs(heap, r)]
    /\ ret' = [op |-> "BigInt", err |-> NoErr]
    /\ UNCHANGED rev

\* r.SetInt64(-1)
ResultSetInt64 ==
    /\ Running
    /\ ~IsNil(r)
    /\ LET m == SetMinusOne(heap, r)
       IN  Commit(m.h, x, v, w, m.z, q)
    /\ ret' = [op |-> "r.SetInt64", err |-> NoErr]
    /\ UNCHANGED <<rev, snap>>

\* r.SetBytes(b)
ResultSetBytes(b) ==
    /\ Running
    /\ ~IsNil(r)
    /\ LET m == SetBytes(heap, r, b)
       IN  Commit(m.h, x, v, w, m.z, q)
    /\ ret' = [op |-> "r.SetBytes", arg |-> b, err |-> NoErr]
    /\ UNCHANGED <<rev, snap>>

\* ------------------------------------------------------------------------
\* Specifications
\* ------------------------------------------------------------------------
\* every constructor and decoder, on the boundary cases of its input
Next ==
    \/ \E xin \in BigIntInputs : CallNewUint256(xin)
    \/ \E i \in Uint64Inputs : CallNewUint256FromUint64(i)
    \/ \E s \in HexFew : CallNewUint256FromHex(s)
    \/ \E src \in ScanFew : CallScan(src)
    \/ \E text \in TextFew : CallUnmarshalText(text)
    \/ \E b \in JSONFew : CallUnmarshalJSON(b)
    \/ CallString
    \/ CallValue
    \/ CallMarshalText

Spec == Init /\ [][Next]_vars

\* the byte codec
NextBytes ==
    \/ \E i \in Uint64Inputs : CallNewUint256FromUint64(i)
    \/ \E src \in ScanInputs : CallScan(src)
    \/ CallValue
    \/ RoundTripBytes

SpecBytes == Init /\ [][NextBytes]_vars

\* the hex codec
NextHex ==
    \/ \E s \in HexInputs : CallNewUint256FromHex(s)
    \/ CallString
    \/ CallMarshalText
    \/ RoundTripHex
    \/ RoundTripText

SpecHex == Init /\ [][NextHex]_vars

\* what the caller writes into a big.Int it holds
MutateInputs == {<<2>>, Rep(0, maxByteLength)}

\* a caller that keeps the big.Int it built the Uint256 from
NextCaller ==
    \/ \E xin \in BigIntInputs : CallerNew(xin)
    \/ CallNewUint256OfX
    \/ CallerSetInt64
    \/ \E b \in MutateInputs : CallerSetBytes(b)

SpecCaller == Init /\ [][NextCaller]_vars

\* values of more than one word to build v from
SeedInputs ==
    {[kind |-> "pos", b |-> b] : b \in {Rep(255, WordBytes + 1), Rep(255, maxByteLength)}}

\* a caller that writes into the big.Int that BigInt() returned
NextResult ==
    \/ \E xin \in SeedInputs : CallNewUint256(xin)
    \/ \E i \in Uint64Inputs : CallNewUint256FromUint64(i)
    \/ CallBigInt
    \/ ResultSetInt64
    \/ ResultSetBytes(Rep(0, maxByteLength))

SpecResult == Init /\ [][NextResult]_vars

\* text in, hex text out
NextText ==
    \/ \E t \in TextInputs : CallUnmarshalText(t)
    \/ CallString

SpecText == Init /\ [][NextText]_vars

\* JSON in and out
NextJSON ==
    \/ \E i \in Uint64Inputs : CallNewUint256FromUint64(i)
    \/ \E src \in ScanFew : CallScan(src)
    \/ \E b \in JSONInputs : CallUnmarshalJSON(b)
    \/ CallMarshalJSON
    \/ RoundTripJSON

SpecJSON == Init /\ [][NextJSON]_vars


\* the panicking constructors
NextMust ==
    \/ \E xin \in BigIntInputs : CallMustNewUint256(xin)
    \/ \E s \in HexInputs : CallMustNewUint256FromHex(s)
    \/ CallString

SpecMust == Init /\ [][NextMust]_vars


\* every encoder, on the zero value and on values built from a uint64
NextZero ==
    \/ \E i \in Uint64Inputs : CallNewUint256FromUint64(i)
    \/ CallString
    \/ CallValue
    \/ CallMarshalText
    \/ CallMarshalJSON
    \/ CallBigInt

SpecZero == Init /\ [][NextZero]_vars


\* concurrent readers of a constructed or scanned v
NextReaders ==
    \/ \E i \in Uint64Inputs : ~Reading /\ CallNewUint256FromUint64(i)
    \/ \E src \in {SrcBytes(<<0>>), SrcBytes(Rep(255, maxByteLength))} :
         ~Reading /\ CallScan(src)
    \/ StartReaders
    \/ \E p \in Readers, c \in ReadCalls : ReaderCopy(p, c)
    \/ \E p \in Readers : ReaderRun(p)

SpecReaders == Init /\ [][NextReaders]_vars


\* w := v and decoding into w
NextAssign ==
    \/ \E i \in Uint64Inputs : CallNewUint256FromUint64(i)
    \/ AssignW
    \/ \E src \in {SrcNil, SrcBytes(<<7>>), SrcBytes(Rep(0, maxByteLength + 1))} :
         WScan(src)
    \/ \E text \in {<<"7">>, <<"-", "1">>, <<"0", "x", "f">>} : WUnmarshalText(text)
    \/ \E b \in {<<"7">>, <<"n", "u", "l", "l">>, Quoted(<<"0", "x", "1">>)} :
         WUnmarshalJSON(b)

SpecAssign == Init /\ [][NextAssign]_vars

\* ------------------------------------------------------------------------
\* Error kinds of the specification, as the texts the two revisions return
\* ------------------------------------------------------------------------
InvalidMagnitude ==
    {<<"x must not be negative">>, <<"x must be less than or equal to %d bits">>,
     <<"invalid big.Int: nil">>, <<"invalid big.Int: negative">>,
     <<"invalid big.Int: exceeds %d bits">>}

InvalidSourceNil == {<<"src must not be nil">>, <<"invalid source: nil">>}

InvalidSourceType ==
    {<<"unexpected src type: %T">>, <<"unsupported source type: %T">>}

EmptySource == {<<"src bytes must not be empty">>, <<"invalid source: empty bytes">>}

LengthExceeded ==
    {<<"src bytes must be less than or equal to %d bytes">>,
     <<"invalid source: exceeds %d bytes">>}

MissingPrefix ==
    {<<"s must have 0x prefix">>, <<"invalid hex string: missing 0x/0X prefix">>}

EmptyHex == {<<"s must not be 0x">>, <<"invalid hex string: empty">>}

\* the error of the hex decoder, as each revision passes it on
InvalidHexDigits ==
    {<<"invalid hex string">>, <<"hex number > 256 bits">>,
     <<"invalid hex string", "invalid hex string">>,
     <<"invalid hex string", "hex number > 256 bits">>}

\* the InvalidMagnitude errors of the bit-length check
ExceedsBits ==
    {<<"x must be less than or equal to %d bits">>,
     <<"invalid big.Int: exceeds %d bits">>}

\* the hex decoder's error for a character that is no hex digit
HexSyntax ==
    {<<"invalid hex string">>, <<"invalid hex string", "invalid hex string">>}

\* a hex digit in lower case
LowerHex(c) ==
    CASE c = "A" -> "a" [] c = "B" -> "b" [] c = "C" -> "c"
      [] c = "D" -> "d" [] c = "E" -> "e" [] c = "F" -> "f" [] OTHER -> c

InvalidDecimal == {<<"math/big: cannot unmarshal %q into a *big.Int">>}

\* the magnitude a string of decimal digits denotes in base 10
DecMag(t) == TrimLeft(Reverse(ValLE(t, 10, GroupLen(10))), 0)

IsDecDigits(t) ==
    \A i \in 1..Len(t) : t[i] \in {"0", "1", "2", "3", "4", "5", "6", "7", "8", "9"}

ErrorKind(e) ==
    CASE e = NoErr -> "none"
      [] e \in InvalidMagnitude -> "InvalidMagnitude"
      [] e \in MissingPrefix -> "MissingPrefix"
      [] e \in EmptyHex -> "EmptyHex"
      [] e \in InvalidHexDigits -> "InvalidHexDigits"
      [] OTHER -> "other"


\* the errors of UnmarshalJSON for an empty buffer and for the token null
EmptyInput == {<<"invalid json value: empty">>}

NullValue == {<<"invalid json value: null">>}


\* a JSON number that is a plain integer literal: digits with no leading zero
PlainInteger(t) ==
    /\ Len(t) >= 1
    /\ IsDecDigits(t)
    /\ (Len(t) > 1 => t[1] # "0")


\* a token that begins and ends with a double quote
IsJSONString(b) == Len(b) >= 2 /\ b[1] = "\"" /\ b[Len(b)] = "\""

\* the contexts an UnmarshalJSON failure is reported in
InJSONString == "invalid json string"

InJSONNumber == "invalid json number"

\* tokens whose value is outside [0, 2^256 - 1]
OutOfRangeTokens ==
    {<<"-", "1">>, DecOverUint256, Quoted(<<"-", "1">>), Quoted(DecOverUint256),
     Quoted(<<"0", "x", "1">> \o Rep("0", 64))}

\* bit length of a magnitude in canonical form
MagBits(m) == IF m = <<>> THEN 0 ELSE (Len(m) - 1) * 8 + Len8(m[1])

\* the minimal big-endian encoding of the number a byte buffer writes
Canon(b) == IF TrimLeft(b, 0) = <<>> THEN <<0>> ELSE TrimLeft(b, 0)

\* ------------------------------------------------------------------------
\* Properties
\* ------------------------------------------------------------------------
\* C1: after any sequence of NewUint256, NewUint256FromUint64,
\* NewUint256FromHex, Scan, UnmarshalText and UnmarshalJSON calls, successful
\* or failed, from the zero value, the magnitude held is in [0, 2^256 - 1]:
\* it is not negative and has at most 256 bits.
C1_MagnitudeInRange == Sign(v) >= 0 /\ MagBits(Mag(heap, v)) <= 256

\* v holds 2^256 - 1 after a call that failed
C1_Witness ==
    /\ ret.op \in {"Scan", "UnmarshalText", "UnmarshalJSON"}
    /\ ret.err # NoErr
    /\ Mag(heap, v) = Rep(255, 32)

\* C2: after v := NewUint256(x) succeeds, a later mutation of the caller's x
\* leaves v.String(), v.Value() and v.BigInt() as they were.
C2_CallerMutationKeepsV == snap.kind = "x" => Observe(heap, v) = snap.obs

\* C3: mutating the *big.Int that v.BigInt() returned never changes
\* v.String() and v.Value(), nor the result of an earlier BigInt() call.
C3_ResultMutationKeepsV ==
    snap.kind = "r" => Observe(heap, v) = snap.obs /\ BigObs(heap, q) = snap.prev

\* C4: NewUint256(x) returns a Uint256 holding x exactly when x is non-nil and
\* 0 <= x <= 2^256 - 1; for nil, negative or over 256 bits it returns an
\* InvalidMagnitude error as a value, without aborting, and the zero Uint256.
C4_NewUint256 ==
    ret.op = "NewUint256" =>
        IF ret.arg.kind = "pos" /\ MagBits(TrimLeft(ret.arg.b, 0)) <= 256
        THEN ret.err = NoErr /\ Mag(heap, v) = TrimLeft(ret.arg.b, 0) /\ ~v.neg
        ELSE ret.err \in InvalidMagnitude /\ v = ZeroInt

C6_ScanSourceErrors ==
    ret.op = "Scan" =>
        /\ ~IsPanic(ret.err)
        /\ IF ret.arg.type = "nil" THEN ret.err \in InvalidSourceNil
           ELSE IF ret.arg.type # "[]byte" THEN ret.err \in InvalidSourceType
           ELSE Len(ret.arg.b) = 0 => ret.err \in EmptySource

\* an empty []byte was refused as EmptySource
C6_Witness ==
    /\ ret.op = "Scan"
    /\ ret.arg = SrcBytes(<<>>)
    /\ ret.err \in EmptySource

\* C7: for a []byte b with 1 <= len(b) <= 32, Scan(b) succeeds and the receiver
\* holds the unsigned big-endian value of b, leading zero bytes ignored.
C7_ScanBigEndian ==
    (ret.op = "Scan" /\ ret.arg.type = "[]byte"
        /\ Len(ret.arg.b) >= 1 /\ Len(ret.arg.b) <= 32)
        => /\ ret.err = NoErr
           /\ ~v.neg
           /\ Mag(heap, v) = TrimLeft(ret.arg.b, 0)

\* 31 zero bytes and 0x01 were scanned as 1
C7_Witness ==
    /\ ret.op = "Scan"
    /\ ret.arg = SrcBytes(Rep(0, 31) \o <<1>>)
    /\ ret.err = NoErr
    /\ Mag(heap, v) = <<1>>

\* C8: Value() returns, without error, between 1 and 32 bytes: the big-endian
\* encoding of the magnitude without a leading zero byte, and exactly the one
\* byte 0x00 for magnitude 0.
C8_ValueMinimal ==
    LET b == DoValue(heap, v)
    IN  /\ Len(b) >= 1 /\ Len(b) <= 32
        /\ (b[1] = 0 => b = <<0>>)
        /\ TrimLeft(b, 0) = Mag(heap, v)
        /\ (ret.op = "Scan" /\ ret.err = NoErr => b = Canon(ret.arg.b))
        /\ (ret.op = "Value" => ret.out = b /\ ret.err = NoErr)

\* Value() gave the single byte 0x00 for a zero scanned from bytes
C8_Witness == ret.op = "Value" /\ ret.out = <<0>> /\ v.len = 0 /\ v.arr # 0

\* C9: scanning the bytes that Value() gives for a Uint256 holding m into a
\* fresh Uint256 succeeds and gives a Uint256 holding m.
C9_BytesRoundTrip ==
    ret.op = "RoundTripBytes" => ret.err = NoErr /\ ret.got = Mag(heap, v)

\* 2^256 - 1 went through Value() and Scan
C9_Witness ==
    /\ ret.op = "RoundTripBytes"
    /\ ret.err = NoErr
    /\ ret.got = Rep(255, 32)

\* C10: NewUint256FromHex(v.String()) succeeds and gives a Uint256 holding what
\* v holds, and so does UnmarshalText(v.MarshalText()).
C10_HexRoundTrip ==
    ret.op \in {"RoundTripHex", "RoundTripText"}
        => ret.err = NoErr /\ ret.got = Mag(heap, v)

\* 2^256 - 1 went through MarshalText and UnmarshalText
C10_Witness ==
    /\ ret.op = "RoundTripText"
    /\ ret.err = NoErr
    /\ ret.got = Rep(255, 32)

\* C11: unmarshalling the JSON that marshalling a Uint256 holding m produces
\* succeeds and gives a Uint256 holding m.
C11_JSONRoundTrip ==
    ret.op = "RoundTripJSON" => ret.err = NoErr /\ ret.got = Mag(heap, v)

\* 2^256 - 1 went through json.Marshal and UnmarshalJSON
C11_Witness ==
    /\ ret.op = "RoundTripJSON"
    /\ ret.err = NoErr
    /\ ret.got = Rep(255, 32)
    /\ Len(ret.arg) = 68

\* C12: for every Uint256 v, String() and MarshalText() give "0x" followed
\* by lowercase hexadecimal digits only; the digit after "0x" is '0' only
\* when the output is exactly "0x0", which is the output for magnitude 0.
C12_HexOutputForm ==
    LET s == DoString(heap, v)
    IN  /\ DoMarshalText(heap, v) = s
        /\ Len(s) >= 3 /\ s[1] = "0" /\ s[2] = "x"
        /\ \A i \in 3..Len(s) : \E k \in 1..16 : s[i] = HexDigits[k]
        /\ (s[3] = "0" => s = <<"0", "x", "0">>)
        /\ (Mag(heap, v) = <<>> => s = <<"0", "x", "0">>)

\* C13: NewUint256FromHex("0X" + d) has the outcome of
\* NewUint256FromHex("0x" + d), the same value or the same kind of error, and
\* every string that starts with neither "0x" nor "0X" fails with
\* MissingPrefix.
C13_PrefixEitherCase ==
    ret.op = "NewUint256FromHex" =>
        /\ HasPrefix(ret.arg, "0", "X") =>
              LET o == DoFromHex(EmptyHeap,
                                 <<"0", "x">> \o SubSeq(ret.arg, 3, Len(ret.arg)))
              IN  /\ ErrorKind(ret.err) = ErrorKind(o.err)
                  /\ ret.err = NoErr => Mag(heap, v) = Mag(o.h, o.z)
        /\ (~HasPrefix(ret.arg, "0", "x") /\ ~HasPrefix(ret.arg, "0", "X"))
              => ret.err \in MissingPrefix

\* C14: NewUint256FromHex fails with EmptyHex when the input is exactly "0x"
\* or exactly "0X", a kind of error that no unprefixed input gets.
C14_EmptyHex ==
    /\ EmptyHex \cap MissingPrefix = {}
    /\ (ret.op = "NewUint256FromHex" /\ ret.arg \in {<<"0", "x">>, <<"0", "X">>})
          => ret.err \in EmptyHex

\* C15: for every k >= 0 and every string d of hex digits whose value is at
\* most 2^256 - 1, NewUint256FromHex("0x" + k zero digits + d) succeeds with
\* the value of d, however long the input; digits that are all zeros give 0.
C15_LeadingZeroDigits ==
    LET digits == SubSeq(ret.arg, 3, Len(ret.arg))
    IN  (/\ ret.op = "NewUint256FromHex"
         /\ HasPrefix(ret.arg, "0", "x")
         /\ digits # <<>>
         /\ \A i \in 1..Len(digits) : decodeNibble(digits[i]) # -1
         /\ MagBits(TrimLeft(NibblesBE(digits), 0)) <= 256)
        => /\ ret.err = NoErr
           /\ Mag(heap, v) = TrimLeft(NibblesBE(digits), 0)

\* 64 zero digits in front of 64 'f' digits were read as 2^256 - 1
C15_Witness ==
    /\ ret.op = "NewUint256FromHex"
    /\ ret.arg = <<"0", "x">> \o Rep("0", 64) \o Rep("f", 64)
    /\ ret.err = NoErr
    /\ Mag(heap, v) = Rep(255, 32)

\* C16: when a "0x" string is made of hex digits only and its value exceeds
\* 2^256 - 1 (as "0x1" followed by 64 zero digits), NewUint256FromHex fails
\* with the InvalidMagnitude error of the bit-length check, not with an error
\* of the hex format.
C16_HexOverflowKind ==
    LET digits == SubSeq(ret.arg, 3, Len(ret.arg))
    IN  (/\ ret.op = "NewUint256FromHex"
         /\ HasPrefix(ret.arg, "0", "x")
         /\ digits # <<>>
         /\ \A i \in 1..Len(digits) : decodeNibble(digits[i]) # -1
         /\ MagBits(TrimLeft(NibblesBE(digits), 0)) > 256)
        => ret.err \in ExceedsBits

C18_StrictDecimal ==
    (/\ ret.op = "UnmarshalText"
     /\ TrimSpace(ret.arg) = ret.arg
     /\ ~HasPrefix(ret.arg, "0", "x") /\ ~HasPrefix(ret.arg, "0", "X"))
    => IF ret.arg # <<>> /\ IsDecDigits(ret.arg)
       THEN IF MagBits(DecMag(ret.arg)) <= 256
            THEN ret.err = NoErr /\ Mag(heap, v) = DecMag(ret.arg)
            ELSE ret.err \in InvalidMagnitude
       ELSE IF Len(ret.arg) >= 2 /\ ret.arg[1] = "-" /\ IsDecDigits(Tail(ret.arg))
       THEN DecMag(Tail(ret.arg)) # <<>> => ret.err \in InvalidMagnitude
       ELSE ret.err \in InvalidDecimal

\* C19: UnmarshalText trims the white space around its input and dispatches
\* on the trimmed text: with a "0x" or "0X" prefix the outcome is that of
\* NewUint256FromHex on the trimmed text, otherwise that of the decimal
\* decoder on the trimmed text.
C19_TrimThenDispatch ==
    ret.op = "UnmarshalText" =>
        LET s == TrimSpace(ret.arg)
            o == IF HasPrefix(s, "0", "x") \/ HasPrefix(s, "0", "X")
                 THEN DoFromHex(EmptyHeap, s)
                 ELSE DoUnmarshalText(EmptyHeap, ZeroInt, s)
        IN  /\ ret.err = o.err
            /\ ret.err = NoErr => Mag(heap, v) = Mag(o.h, o.z)

\* C20: json.Marshal of any Uint256 v gives the JSON string token made of a
\* double quote, v.String() and a double quote ("0x0" in quotes for the zero
\* value and for 0), never a bare JSON number.
C20_MarshalJSONQuoted ==
    LET j == jsonMarshal(heap, v)
    IN  /\ j = <<"\"">> \o DoString(heap, v) \o <<"\"">>
        /\ (Mag(heap, v) = <<>> => j = <<"\"", "0", "x", "0", "\"">>)
        /\ (ret.op = "MarshalJSON" => ret.out = j /\ ret.err = NoErr)

\* the zero value was marshalled to "0x0" in quotes
C20_Witness ==
    /\ ret.op = "MarshalJSON"
    /\ v = ZeroInt
    /\ ret.out = <<"\"", "0", "x", "0", "\"">>

\* C21: UnmarshalJSON returns an EmptyInput error for an empty buffer and a
\* NullValue error for the token null; it returns rather than aborts, and
\* the two kinds differ from each other and from the decode error kinds.
C21_EmptyAndNull ==
    /\ EmptyInput \cap NullValue = {}
    /\ (EmptyInput \cup NullValue)
         \cap (InvalidDecimal \cup InvalidHexDigits \cup MissingPrefix
               \cup EmptyHex \cup InvalidMagnitude) = {}
    /\ ret.op = "UnmarshalJSON" /\ ret.arg = <<>> => ret.err \in EmptyInput
    /\ ret.op = "UnmarshalJSON" /\ ret.arg = <<"n", "u", "l", "l">>
         => ret.err \in NullValue

\* C22: an unquoted token given to UnmarshalJSON is accepted only when it is
\* a plain base-10 integer literal: one with a fraction or an exponent
\* fails, an unquoted 0x/0X token is not decoded as hex, a plain integer in
\* [0, 2^256 - 1] decodes to its decimal value, and -1 or 2^256 fails the
\* magnitude range check.
C22_UnquotedNumber ==
    ret.op = "UnmarshalJSON" /\ ret.arg # <<>> /\ ret.arg[1] # "\""
    /\ ret.arg # <<"n", "u", "l", "l">>
    => /\ ~IsPanic(ret.err)
       /\ ret.err = NoErr => PlainInteger(ret.arg)
       /\ PlainInteger(ret.arg) /\ MagBits(DecMag(ret.arg)) <= 256
            => ret.err = NoErr /\ Mag(heap, v) = DecMag(ret.arg)
       /\ PlainInteger(ret.arg) /\ MagBits(DecMag(ret.arg)) > 256
            => ret.err \in ExceedsBits
       /\ ret.arg = <<"-", "1">> => ret.err \in InvalidMagnitude

\* C23: every UnmarshalJSON failure tells where it arose: on a quoted token
\* in the JSON-string context, on an unquoted token in the JSON-number
\* context, and an out-of-range value additionally as the InvalidMagnitude
\* cause, so that the three cases can be told apart.
C23_FailureContext ==
    ret.op = "UnmarshalJSON" /\ ret.err # NoErr /\ ret.arg # <<>>
    /\ ret.arg # <<"n", "u", "l", "l">>
    => /\ ~IsPanic(ret.err)
       /\ IsJSONString(ret.arg) => ret.err[1] = InJSONString
       /\ ret.arg[1] # "\"" => ret.err[1] = InJSONNumber
       /\ ret.arg \in OutOfRangeTokens => Tail(ret.err) \in InvalidMagnitude

C25_ZeroValue ==
    LET n == DoFromUint64(heap, Rep(0, 8))
        IsZeroCodec(h, z) ==
            /\ DoString(h, z) = <<"0", "x", "0">>
            /\ DoMarshalText(h, z) = <<"0", "x", "0">>
            /\ DoValue(h, z) = <<0>>
            /\ jsonMarshal(h, z) = <<"\"", "0", "x", "0", "\"">>
            /\ BigObs(DoBigInt(h, z).h, DoBigInt(h, z).x) = <<"0">>
    IN  /\ n.err = NoErr
        /\ IsZeroCodec(heap, ZeroInt)
        /\ IsZeroCodec(n.h, n.z)
        /\ v = ZeroInt /\ ret.op \in {"String", "MarshalText"}
             => ret.out = <<"0", "x", "0">>
        /\ v = ZeroInt /\ ret.op = "Value" => ret.out = <<0>>
        /\ v = ZeroInt /\ ret.op = "MarshalJSON"
             => ret.out = <<"\"", "0", "x", "0", "\"">>
        /\ v = ZeroInt /\ ret.op = "BigInt" => BigObs(heap, r) = <<"0">>

\* String() was called on a Uint256 that no constructor has written
C25_Witness ==
    /\ ret.op = "String"
    /\ v = ZeroInt
    /\ heap = EmptyHeap
    /\ ret.out = <<"0", "x", "0">>

\* C26: concurrent read-only calls (String, Value, MarshalText, BigInt) on
\* the same Uint256, in any interleaving, never write storage reachable
\* from that Uint256 or from another reader's result, and every reader
\* observes the same magnitude.
C26_ConcurrentReaders ==
    ret.op = "readers"
    => /\ ~ret.wroteShared
       /\ Observe(heap, v) = snap.obs
       /\ \A p \in Readers :
            ret.procs[p].pc = "done"
            => /\ ret.procs[p].out = ReadOut(ret.procs[p].call, heap, v)
               /\ ret.procs[p].call \in {"String", "MarshalText"}
                    => ret.procs[p].out = snap.obs.str
               /\ ret.procs[p].call = "Value" => ret.procs[p].out = snap.obs.val
               /\ ret.procs[p].call = "BigInt"
                    => /\ ret.procs[p].out = snap.obs.big
                       /\ BigObs(heap, IF p = 1 THEN r ELSE q) = snap.obs.big

\* both readers called BigInt() on a non-zero v at the same time and returned
C26_Witness ==
    /\ ret.op = "readers"
    /\ \A p \in Readers : ret.procs[p].pc = "done" /\ ret.procs[p].call = "BigInt"
    /\ Mag(heap, v) = Rep(255, maxByteLength)
    /\ ~IsNil(r) /\ ~IsNil(q)

\* C27: after w := v, a successful or failed Scan, UnmarshalText or
\* UnmarshalJSON on w leaves v.String() and v.Value() unchanged.
C27_AssignIsCopy ==
    snap.kind = "assign"
    => /\ DoString(heap, v) = snap.obs.str
       /\ DoValue(heap, v) = snap.obs.val

\* C28: for a token that begins and ends with a double quote, UnmarshalJSON
\* has the outcome of UnmarshalText on the characters between the quotes
\* (quoted decimal and quoted 0x/0X hex decode to the same values as through
\* UnmarshalText), and a quoted content with an invalid escape sequence such
\* as 0x\x fails in the JSON-string context.
C28_QuotedAsText ==
    ret.op = "UnmarshalJSON" /\ IsJSONString(ret.arg)
    => LET c == SubSeq(ret.arg, 2, Len(ret.arg) - 1)
           t == DoUnmarshalText(EmptyHeap, ZeroInt, c)
       IN  /\ (\A i \in 1..Len(c) : c[i] # "\\")
                => /\ ret.err = t.err
                   /\ t.err = NoErr => Mag(heap, v) = Mag(t.h, t.z)
           /\ c = <<"0", "x", "\\", "x">>
                => ret.err # NoErr /\ ret.err[1] = InJSONString

\* C29: a failed decode never changes its receiver: whenever Scan,
\* UnmarshalText or UnmarshalJSON fails on a Uint256 that held magnitude m
\* before the call, the Uint256 still holds m afterwards.
C29_FailedDecodeKeeps ==
    [][ret'.op \in {"Scan", "UnmarshalText", "UnmarshalJSON"} /\ ret'.err # NoErr
       => /\ Mag(heap', v') = Mag(heap, v)
          /\ v'.neg = v.neg]_vars

\* UnmarshalText failed the range check on a Uint256 holding a non-zero value
C29_Witness ==
    /\ ret.op = "UnmarshalText"
    /\ ret.err \in InvalidMagnitude
    /\ Mag(heap, v) # <<>>

\* C30: UnmarshalJSON is total over byte buffers: for every input, the
\* empty buffer and the buffer holding a single double quote included, it
\* returns nil or an error and never aborts with an index or slice-bounds
\* failure.
C30_UnmarshalJSONTotal ==
    ret.op \in {"UnmarshalJSON", "RoundTripJSON"} => ~IsPanic(ret.err)

====
